---------------------------- MODULE Spec2Model ----------------------------
(***************************************************************************)
(* A model of wordpress_markdown_blog_loader/blog.py: the image reference  *)
(* reconciliation of class Blog (download_remote_images,                   *)
(* upload_local_images, rendered, to_wordpress) and the repair filter      *)
(* remove_span_tags_from_code.                                             *)
(*                                                                         *)
(* Two specifications share the module.  Spec drives a Blog document       *)
(* through its image operations; SpanSpec builds markdown texts and        *)
(* applies the repair filter to them once and twice.                       *)
(***************************************************************************)
EXTENDS Integers, Sequences, FiniteSets, TLC

VARIABLES
    \* ---- a Blog document and its surroundings (Spec) ----
    content,            \* self.content: the markdown body, a sequence of items
    uploaded_images,    \* self.uploaded_images: url text -> uploaded media object
    downloaded_images,  \* self.downloaded_images: the urls fetched by the last download
    fs,                 \* the files under the document's directory: path -> bytes
    pc,                 \* "idle" | "download" | "upload": the loop a call is in
    pending,            \* the references the running loop has still to visit
    op,                 \* the operation running, or the last one that ran
    outcome,            \* "none" | "running" | "ok" | "raised" | "lookup_failed"
    prev,               \* the operation that ran before op, and how it ended
    result,             \* what the last to_wordpress returned
    \* ---- what the claims are stated with ----
    orig,               \* the body the document was loaded with
    downloading,        \* whether download_remote_images was ever called
    pre,                \* content, fs and uploaded_images when op was called
    got,                \* the urls op has called wp.get_media with
    put,                \* the file names op has called wp.upload_media for
    failed,             \* the urls for which wp.get_media raised during op
    \* ---- the repair filter (SpanSpec) ----
    markdown,   \* the filter's input text, a sequence of tokens
    nlines,     \* number of lines the input holds so far
    phase,      \* "build" | "once" | "twice"
    out1,       \* remove_span_tags_from_code(markdown)
    out2        \* remove_span_tags_from_code(out1)

blogVars == <<content, uploaded_images, downloaded_images, fs, pc, pending, op,
              outcome, prev, result, orig, downloading, pre, got, put, failed>>

spanVars == <<markdown, nlines, phase, out1, out2>>

vars == <<blogVars, spanVars>>

-----------------------------------------------------------------------------
(***************************************************************************)
(* Urls.  The text of a url is a record of its parts as written: scheme    *)
(* (with the case it was written in), host, path (its segments, and        *)
(* whether it starts with "/") and query string.  Two url texts are the    *)
(* same string exactly when they are the same record.                      *)
(***************************************************************************)
MaxBody == 2

Url(scheme, netloc, abs, segs, query) ==
    [scheme |-> scheme, netloc |-> netloc, path |-> [abs |-> abs, segs |-> segs],
     query |-> query]

\* str.lower() on the schemes of the model.
Lower(x) == IF x = "HTTP" THEN "http" ELSE x

\* urllib.parse.urlparse(url): the scheme comes back in lower case.
urlparse(url) == [url EXCEPT !.scheme = Lower(@)]

\* ParseResult.geturl(): the parts put together again.
geturl(u) == Url(u.scheme, u.netloc, u.path.abs, u.path.segs, u.query)

\* Path(url.path).name: the last segment of the path.
PathName(path) == path.segs[Len(path.segs)]

\* A bare path read as url text: a url with nothing but a path.
PathText(path) == [scheme |-> "", netloc |-> "", path |-> path, query |-> ""]

\* The url text "./images/<name>".
ImagesUrl(name) == Url("", "", FALSE, <<".", "images", name>>, "")

\* Path(self.dir).joinpath(filename), relative to the document's directory:
\* pathlib drops the "." segments.
JoinDir(path) == SelectSeq(path.segs, LAMBDA x : x # ".")

\* The hosts the endpoint owns (WordpressEndpoint.is_host_for).
EndpointHosts == {"h"}
is_host_for(u) == u.netloc \in EndpointHosts

\* The urls the bodies of the model are written with.
R1 == Url("https", "h", TRUE, <<"wp-content", "uploads", "2023", "01", "a.png">>, "")
R2 == Url("https", "h", TRUE, <<"wp-content", "uploads", "2023", "02", "a.png">>, "")
R3 == Url("HTTP", "h", TRUE, <<"wp-content", "uploads", "2023", "01", "b.png">>, "w=1")
O1 == Url("https", "o", TRUE, <<"wp-content", "uploads", "2023", "01", "a.png">>, "")
O2 == Url("https", "h", TRUE, <<"themes", "a.png">>, "")
L1 == Url("", "", FALSE, <<".", "images", "a.png">>, "")
L2 == Url("", "", FALSE, <<".", "images", "b.png">>, "v=2")
L3 == Url("file", "", FALSE, <<"images", "b.png">>, "")

(***************************************************************************)
(* The body.  markdown_image_pattern cuts the body into the image embeds   *)
(* it matches and the text between them; the body is the sequence of these *)
(* items, an embed with its three groups alt_text, url and caption (the    *)
(* caption with its leading blank and quotes, "" when the group is absent).*)
(***************************************************************************)
Image(alt, url, caption) == [kind |-> "image", alt_text |-> alt, url |-> url, caption |-> caption]
Text(t) == [kind |-> "text", text |-> t]

Items ==
    { Text("t"),
      Image("", R1, ""), Image("r2", R2, " \"c\""), Image("r3", R3, ""),
      Image("o1", O1, " \"c\""), Image("o2", O2, ""),
      Image("l1", L1, " \"c\""), Image("", L2, ""), Image("l3", L3, "") }

Bodies == UNION {[1..n -> Items] : n \in 1..MaxBody}

\* re.finditer(self.markdown_image_pattern, self.content), group "url".
UrlsOf(body) == {body[i].url : i \in {j \in 1..Len(body) : body[j].kind = "image"}}

\* Blog.local_image_references: the paths of the urls with no scheme or file.
local_image_references(body) ==
    {u.path : u \in {v \in {urlparse(x) : x \in UrlsOf(body)} : v.scheme \in {"", "file"}}}

StartsWithUploads(path) ==
    path.abs /\ Len(path.segs) >= 3 /\ path.segs[1] = "wp-content" /\ path.segs[2] = "uploads"

\* A plausible slip: the host test is left out.
remote_image_references_AnyHost(body) ==
    {u \in {urlparse(x) : x \in UrlsOf(body)} :
        u.scheme \in {"https", "http"} /\ StartsWithUploads(u.path)}

\* Blog.remote_image_references(endpoint)
remote_image_references(body) ==
    {u \in {urlparse(x) : x \in UrlsOf(body)} :
        u.scheme \in {"https", "http"} /\ is_host_for(u) /\ StartsWithUploads(u.path)}

(***************************************************************************)
(* The remote store and the file system.                                   *)
(***************************************************************************)
\* wp.get_media(url): the bytes the store serves at url, named by the url
\* they come from: different urls serve different bytes.
get_media(url) == url

\* Path(filename).stem, for the file names of the model.
Stem(name) == CASE name = "a.png" -> "a" [] name = "b.png" -> "b" [] OTHER -> name

\* self.slug + "-" + re.sub(r"[/\.\\]+", "-", Path(filename).stem).strip("-"),
\* for a document whose slug is "s".
Slug(filename) ==
    CASE Stem(PathName(filename)) = "a" -> "s-a"
      [] Stem(PathName(filename)) = "b" -> "s-b"
      [] OTHER -> "s-"

\* wp.upload_media(slug, image): the uploaded object, with its public url.
upload_media(slug) ==
    [url |-> Url("https", "h", TRUE, <<"wp-content", "uploads", slug>>, "")]

FilePaths == {<<"images", "a.png">>, <<"images", "b.png">>}
\* A file: whether it exists, and its bytes.  LocalBytes are the bytes of a
\* file the author put there, which no url of the store serves.
LocalBytes == Url("", "", FALSE, <<>>, "")
Absent == [exists |-> FALSE, bytes |-> LocalBytes]
OnDisk == [exists |-> TRUE, bytes |-> LocalBytes]

\* open(path, "wb").write(raw)
Written(raw) == [exists |-> TRUE, bytes |-> raw]

\* path.exists()
Exists(files, path) == path \in FilePaths /\ files[path].exists

EmptyMap == <<>>
NoRecord == "no record"
NoOp == [op |-> "none", outcome |-> "none"]

\* key in dict / dict[key] = value
Has(map, key) == key \in DOMAIN map
Put(map, key, value) == [k \in DOMAIN map \cup {key} |-> IF k = key THEN value ELSE map[k]]

-----------------------------------------------------------------------------
(***************************************************************************)
(* Blog.rendered, up to the call of markdown(): the body with the uploaded *)
(* images' urls put in.                                                    *)
(***************************************************************************)
\* replace_references(match), with self.uploaded_images as map
replace_references(map, m) ==
    IF Has(map, m.url)        \* image = self.uploaded_images.get(match.group("url"))
    THEN Image(m.alt_text, map[m.url].url, m.caption)
    ELSE m

\* self.markdown_image_pattern.sub(replace_references, self.content): every
\* match is replaced by what the callback returns, the text between is kept.
rendered(map, body) ==
    [i \in 1..Len(body) |->
        IF body[i].kind = "image" THEN replace_references(map, body[i]) ELSE body[i]]

(***************************************************************************)
(* Blog.download_remote_images                                             *)
(***************************************************************************)
Snapshot == [content |-> content, fs |-> fs, uploaded_images |-> uploaded_images]

Call(name) ==
    /\ pc = "idle"
    /\ op' = name
    /\ prev' = [op |-> op, outcome |-> outcome]
    /\ pre' = Snapshot
    /\ got' = {}
    /\ put' = {}
    /\ failed' = {}

\* line 242 and the head of the loop of line 243
DownloadBegin ==
    /\ Call("download")
    /\ downloaded_images' = {}
    /\ pending' = remote_image_references(content)
    /\ pc' = "download"
    /\ outcome' = "running"
    /\ downloading' = TRUE
    /\ UNCHANGED <<content, uploaded_images, fs, result, orig, spanVars>>

\* lines 244-250, one turn of the loop: the image is fetched and written
DownloadImage(url) ==
    /\ pc = "download"
    /\ url \in pending
    /\ got' = got \cup {geturl(url)}
    /\ fs' = [fs EXCEPT ![<<"images", PathName(url.path)>>] = Written(get_media(geturl(url)))]
    /\ downloaded_images' = downloaded_images \cup {geturl(url)}
    /\ pending' = pending \ {url}
    /\ UNCHANGED <<content, uploaded_images, pc, op, outcome, prev, result, orig,
                   downloading, pre, put, failed, spanVars>>

\* A plausible slip: the failure is swallowed and the loop goes on.
DownloadRaises_Continue(url) ==
    /\ pc = "download"
    /\ url \in pending
    /\ got' = got \cup {geturl(url)}
    /\ failed' = failed \cup {geturl(url)}
    /\ pending' = pending \ {url}
    /\ UNCHANGED <<content, uploaded_images, downloaded_images, fs, pc, op, outcome,
                   prev, result, orig, downloading, pre, put, spanVars>>

\* line 246: wp.get_media raises; nothing catches it, the call ends there
DownloadRaises(url) ==
    /\ pc = "download"
    /\ url \in pending
    /\ got' = got \cup {geturl(url)}
    /\ failed' = failed \cup {geturl(url)}
    /\ pending' = {}
    /\ pc' = "idle"
    /\ outcome' = "raised"
    /\ UNCHANGED <<content, uploaded_images, downloaded_images, fs, op, prev, result,
                   orig, downloading, pre, put, spanVars>>

\* A plausible slip: the embed is rebuilt with the url it had.
replace_remote_image_references_KeepUrl(downloaded, m) ==
    LET url == urlparse(m.url)
    IN IF geturl(url) \in downloaded
       THEN Image(m.alt_text, m.url, m.caption)
       ELSE m

\* replace_remote_image_references(match), with self.downloaded_images
replace_remote_image_references(downloaded, m) ==
    LET url == urlparse(m.url)
        name == PathName(url.path)
    IN IF geturl(url) \in downloaded
       THEN Image(m.alt_text, ImagesUrl(name), m.caption)
       ELSE m

\* lines 262-264, after the loop: the body is rewritten
DownloadRewrite ==
    /\ pc = "download"
    /\ pending = {}
    /\ content' = [i \in 1..Len(content) |->
                      IF content[i].kind = "image"
                      THEN replace_remote_image_references(downloaded_images, content[i])
                      ELSE content[i]]
    /\ pc' = "idle"
    /\ outcome' = "ok"
    /\ UNCHANGED <<uploaded_images, downloaded_images, fs, pending, op, prev, result,
                   orig, downloading, pre, got, put, failed, spanVars>>

(***************************************************************************)
(* Blog.upload_local_images, called directly or by Blog.to_wordpress       *)
(***************************************************************************)
\* line 267 and the head of the loop of line 268
UploadBegin ==
    /\ Call("upload")
    /\ uploaded_images' = EmptyMap
    /\ pending' = local_image_references(content)
    /\ pc' = "upload"
    /\ outcome' = "running"
    /\ UNCHANGED <<content, downloaded_images, fs, result, orig, downloading, spanVars>>

\* A plausible slip: a missing file ends the loop (break for continue).
UploadSkip_Break(filename) ==
    /\ pc = "upload"
    /\ filename \in pending
    /\ ~Exists(fs, JoinDir(filename))
    /\ pending' = {}
    /\ UNCHANGED <<content, uploaded_images, downloaded_images, fs, pc, op, outcome,
                   prev, result, orig, downloading, pre, got, put, failed, spanVars>>

\* lines 269-272: the file does not exist; a warning, and on to the next
UploadSkip(filename) ==
    /\ pc = "upload"
    /\ filename \in pending
    /\ ~Exists(fs, JoinDir(filename))
    /\ pending' = pending \ {filename}
    /\ UNCHANGED <<content, uploaded_images, downloaded_images, fs, pc, op, outcome,
                   prev, result, orig, downloading, pre, got, put, failed, spanVars>>

\* lines 274-280: the file exists; it is uploaded and recorded under its path
UploadImage(filename) ==
    /\ pc = "upload"
    /\ filename \in pending
    /\ Exists(fs, JoinDir(filename))
    /\ put' = put \cup {filename}
    /\ uploaded_images' = Put(uploaded_images, PathText(filename),
                              upload_media(Slug(filename)))
    /\ pending' = pending \ {filename}
    /\ UNCHANGED <<content, downloaded_images, fs, pc, op, outcome, prev, result, orig,
                   downloading, pre, got, failed, spanVars>>

\* line 280: wp.upload_media raises; nothing catches it
UploadRaises(filename) ==
    /\ pc = "upload"
    /\ filename \in pending
    /\ Exists(fs, JoinDir(filename))
    /\ put' = put \cup {filename}
    /\ pending' = {}
    /\ pc' = "idle"
    /\ outcome' = "raised"
    /\ UNCHANGED <<content, uploaded_images, downloaded_images, fs, op, prev, result,
                   orig, downloading, pre, got, failed, spanVars>>

\* the loop is over and upload_local_images returns to its caller
UploadReturn ==
    /\ pc = "upload"
    /\ op = "upload"
    /\ pending = {}
    /\ pc' = "idle"
    /\ outcome' = "ok"
    /\ UNCHANGED <<content, uploaded_images, downloaded_images, fs, pending, op, prev,
                   result, orig, downloading, pre, got, put, failed, spanVars>>

(***************************************************************************)
(* Blog.to_wordpress                                                       *)
(***************************************************************************)
\* wp.get_unique_user_by_name(name) finds one user among `matches` of them.
get_unique_user_by_name(matches) == IF matches = 1 THEN "user" ELSE "raise"

\* A plausible slip: the images are uploaded before the author is looked up.
ToWordpressBegin_UploadFirst(matches) ==
    LET files == {f \in local_image_references(content) : Exists(fs, JoinDir(f))}
    IN /\ pc = "idle"
       /\ op' = "to_wordpress"
       /\ prev' = [op |-> op, outcome |-> outcome]
       /\ pre' = Snapshot
       /\ got' = {}
       /\ failed' = {}
       /\ result' = NoRecord
       /\ put' = files
       /\ uploaded_images' = [k \in {PathText(f) : f \in files} |-> upload_media(Slug(k.path))]
       /\ pending' = {}
       /\ IF get_unique_user_by_name(matches) = "raise"
          THEN outcome' = "lookup_failed" /\ pc' = "idle"
          ELSE outcome' = "running" /\ pc' = "upload"
       /\ UNCHANGED <<content, downloaded_images, fs, orig, downloading, spanVars>>

\* lines 283-284: the author is looked up, then upload_local_images begins
ToWordpressBegin(matches) ==
    /\ Call("to_wordpress")
    /\ result' = NoRecord
    /\ IF get_unique_user_by_name(matches) = "raise"
       THEN /\ outcome' = "lookup_failed"
            /\ UNCHANGED <<uploaded_images, pending, pc>>
       ELSE /\ uploaded_images' = EmptyMap
            /\ pending' = local_image_references(content)
            /\ pc' = "upload"
            /\ outcome' = "running"
    /\ UNCHANGED <<content, downloaded_images, fs, orig, downloading, spanVars>>

\* A plausible slip: the rendered body is stored back into the document.
ToWordpressReturn_StoresRendered ==
    /\ pc = "upload"
    /\ op = "to_wordpress"
    /\ pending = {}
    /\ result' = [content |-> rendered(uploaded_images, content)]
    /\ content' = rendered(uploaded_images, content)
    /\ pc' = "idle"
    /\ outcome' = "ok"
    /\ UNCHANGED <<uploaded_images, downloaded_images, fs, pending, op, prev,
                   orig, downloading, pre, got, put, failed, spanVars>>

\* lines 285-299: upload_local_images has returned; the record is built
ToWordpressReturn ==
    /\ pc = "upload"
    /\ op = "to_wordpress"
    /\ pending = {}
    /\ result' = [content |-> rendered(uploaded_images, content)]
    /\ pc' = "idle"
    /\ outcome' = "ok"
    /\ UNCHANGED <<content, uploaded_images, downloaded_images, fs, pending, op, prev,
                   orig, downloading, pre, got, put, failed, spanVars>>

-----------------------------------------------------------------------------
\* Blog(): the document as __init__ leaves it.
BlogFresh ==
    /\ content = <<>>
    /\ uploaded_images = EmptyMap
    /\ downloaded_images = {}
    /\ fs = [f \in FilePaths |-> Absent]
    /\ pc = "idle"
    /\ pending = {}
    /\ op = "none"
    /\ outcome = "none"
    /\ prev = NoOp
    /\ result = NoRecord
    /\ orig = <<>>
    /\ downloading = FALSE
    /\ pre = [content |-> <<>>, fs |-> [f \in FilePaths |-> Absent], uploaded_images |-> EmptyMap]
    /\ got = {}
    /\ put = {}
    /\ failed = {}

-----------------------------------------------------------------------------
(***************************************************************************)
(* Text.  A text is a sequence of tokens; each token stands for the        *)
(* literal characters it is written with ("\n" a line break, "span" the    *)
(* four letters of the tag name), except FENCE, which stands for the three *)
(* backticks of a code fence.  The regular expressions of the source are   *)
(* applied token by token, a token playing the part of a character.        *)
(***************************************************************************)
MaxLines == 4

NL == "\n"
FENCE == "FENCE"

\* "</span>", the marker remove_span_tags_from_code looks for first.
CloseSpan == <<"<", "/", "span", ">">>

\* The lines the input texts are made of.
LineShapes ==
    { <<FENCE>>,                                          \* ```
      <<FENCE, "html">>,                                  \* ```html
      <<FENCE, "html", "x">>,                             \* ```htmlx
      <<FENCE, "x">>,                                     \* ```x
      <<"x">>,                                            \* x
      <<"<", "span", " ", "x", ">", "x", "<", "/", "span", ">">>,  \* <span x>x</span>
      <<"<", "span", "x", ">", "<", "/", "span", ">">>,   \* <spanx></span>
      <<"<", "<", "/", "span", ">", "/", "span", ">">>,   \* <</span>/span>
      <<"<", "/", "span", ">", FENCE>>,                   \* </span>```
      <<"<", "span">>,                                    \* <span
      <<">">> }                                           \* >

\* `sub in s` of Python, for sequences.
Contains(s, sub) ==
    \E i \in 1..(Len(s) - Len(sub) + 1) : SubSeq(s, i, i + Len(sub) - 1) = sub

\* ^ under re.MULTILINE: position i starts a line.
AtLineStart(s, i) == i = 1 \/ (i > 1 /\ i <= Len(s) + 1 /\ s[i - 1] = NL)

\* $ under re.MULTILINE: the text ends, or a line break follows, at position i.
AtLineEnd(s, i) == i = Len(s) + 1 \/ (i <= Len(s) /\ s[i] = NL)

\* The least element of a non-empty set of integers.
Least(S) == CHOOSE x \in S : \A y \in S : x <= y

\* </?span[^>]*?> tried at position i of s: the position of the closing ">"
\* of the tag that starts at i, or 0 when no tag starts there.
TagEnd(s, i) ==
    LET n == Len(s)
        after == IF i + 1 <= n /\ s[i] = "<" /\ s[i + 1] = "span" THEN i + 2
                 ELSE IF i + 2 <= n /\ s[i] = "<" /\ s[i + 1] = "/" /\ s[i + 2] = "span"
                      THEN i + 3
                      ELSE 0
        closers == IF after = 0 THEN {} ELSE {g \in after..n : s[g] = ">"}
    IN IF closers = {} THEN 0 ELSE Least(closers)

RECURSIVE StripFrom(_, _)
StripFrom(s, i) ==
    IF i > Len(s) THEN <<>>
    ELSE IF TagEnd(s, i) # 0 THEN StripFrom(s, TagEnd(s, i) + 1)
         ELSE <<s[i]>> \o StripFrom(s, i + 1)

\* re.sub(r"</?span[^>]*?>", "", code)
StripSpans(s) == StripFrom(s, 1)

\* (^```.*?$) tried at position i: the position just after group 1, the rest
\* of the line the fence opens, or 0 when no fence opens at i.
OpenerEnd(s, i) ==
    IF i <= Len(s) /\ AtLineStart(s, i) /\ s[i] = FENCE
    THEN Least({k \in (i + 1)..(Len(s) + 1) : AtLineEnd(s, k)})
    ELSE 0

\* (^```$) after a non-greedy (?P<code>.*?): the position of the first bare
\* fence line at or after position k, or 0 when there is none.
CloserAt(s, k) ==
    LET cs == {j \in k..Len(s) : AtLineStart(s, j) /\ s[j] = FENCE /\ AtLineEnd(s, j + 1)}
    IN IF cs = {} THEN 0 ELSE Least(cs)

\* A plausible slip: the html test compares the whole opening line.
remove_span_tags_ExactHtml(g0, g1, code, g3) ==
    IF g1 = <<FENCE, "html">> THEN g0 ELSE g1 \o StripSpans(code) \o g3

\* _remove_span_tags(match), the substitution callback: g0 is match.group(0),
\* g1 the opening fence line, code the block body and g3 the closing fence.
_remove_span_tags(g0, g1, code, g3) ==
    IF Len(g0) >= 2 /\ g0[1] = FENCE /\ g0[2] = "html"     \* startswith("```html")
    THEN g0
    ELSE g1 \o StripSpans(code) \o g3

\* pattern.sub(_remove_span_tags, markdown) from position i on: the leftmost
\* match is replaced and the scan resumes after it; other text is copied.
RECURSIVE PatternSub(_, _)
PatternSub(s, i) ==
    IF i > Len(s) THEN <<>>
    ELSE LET k == OpenerEnd(s, i)
             j == IF k = 0 THEN 0 ELSE CloserAt(s, k)
         IN IF j = 0
            THEN <<s[i]>> \o PatternSub(s, i + 1)
            ELSE _remove_span_tags(SubSeq(s, i, j), SubSeq(s, i, k - 1),
                                   SubSeq(s, k, j - 1), SubSeq(s, j, j))
                 \o PatternSub(s, j + 1)

remove_span_tags_from_code(md) ==
    IF ~Contains(md, CloseSpan) THEN md ELSE PatternSub(md, 1)

-----------------------------------------------------------------------------
(***************************************************************************)
(* SpanSpec: markdown texts of up to MaxLines lines, filtered once and     *)
(* twice.                                                                  *)
(***************************************************************************)
SpanIdle ==
    /\ markdown = <<>>
    /\ nlines = 0
    /\ phase = "build"
    /\ out1 = <<>>
    /\ out2 = <<>>

SpanInit == SpanIdle /\ BlogFresh

AddLine(l) ==
    /\ phase = "build"
    /\ nlines < MaxLines
    /\ markdown' = IF nlines = 0 THEN l ELSE markdown \o <<NL>> \o l
    /\ nlines' = nlines + 1
    /\ UNCHANGED <<phase, out1, out2, blogVars>>

\* Blog.remove_span_tags: self.content = remove_span_tags_from_code(self.content)
RemoveSpanTags ==
    /\ phase = "build"
    /\ nlines > 0
    /\ out1' = remove_span_tags_from_code(markdown)
    /\ phase' = "once"
    /\ UNCHANGED <<markdown, nlines, out2, blogVars>>

\* The filter applied again to its own output.
RemoveSpanTagsAgain ==
    /\ phase = "once"
    /\ out2' = remove_span_tags_from_code(out1)
    /\ phase' = "twice"
    /\ UNCHANGED <<markdown, nlines, out1, blogVars>>

SpanNext ==
    \/ \E l \in LineShapes : AddLine(l)
    \/ RemoveSpanTags
    \/ RemoveSpanTagsAgain

SpanSpec == SpanInit /\ [][SpanNext]_vars

-----------------------------------------------------------------------------
(***************************************************************************)
(* Spec: a document loaded from a file (Blog.load) with a body of up to    *)
(* MaxBody items, some of the image files on disk, and the image           *)
(* operations called on it one after the other, each to its end.           *)
(***************************************************************************)
Init ==
    /\ content \in Bodies
    /\ orig = content
    /\ fs \in [FilePaths -> {Absent, OnDisk}]
    /\ pre = [content |-> content, fs |-> fs, uploaded_images |-> EmptyMap]
    /\ uploaded_images = EmptyMap
    /\ downloaded_images = {}
    /\ pc = "idle"
    /\ pending = {}
    /\ op = "none"
    /\ outcome = "none"
    /\ prev = NoOp
    /\ result = NoRecord
    /\ downloading = FALSE
    /\ got = {}
    /\ put = {}
    /\ failed = {}
    /\ SpanIdle

Next ==
    \/ DownloadBegin
    \/ \E url \in pending : DownloadImage(url)
    \/ \E url \in pending : DownloadRaises(url)
    \/ DownloadRewrite
    \/ UploadBegin
    \/ \E filename \in pending : UploadSkip(filename)
    \/ \E filename \in pending : UploadImage(filename)
    \/ \E filename \in pending : UploadRaises(filename)
    \/ UploadReturn
    \/ \E matches \in 0..2 : ToWordpressBegin(matches)
    \/ ToWordpressReturn

Spec == Init /\ [][Next]_vars

-----------------------------------------------------------------------------
(***************************************************************************)
(* What the repair filter is specified to compute, stated line by line:    *)
(* the text is split into lines, a fenced block runs from a line that      *)
(* starts with a fence to the next line that is a bare fence, and the tags *)
(* are taken out of the body of every block that is not exempt.            *)
(***************************************************************************)
RECURSIVE SplitLines(_)
SplitLines(s) ==
    IF \A i \in 1..Len(s) : s[i] # NL THEN <<s>>
    ELSE LET b == Least({i \in 1..Len(s) : s[i] = NL})
         IN <<SubSeq(s, 1, b - 1)>> \o SplitLines(SubSeq(s, b + 1, Len(s)))

RECURSIVE JoinLines(_)
JoinLines(ls) ==
    IF Len(ls) = 0 THEN <<>>
    ELSE IF Len(ls) = 1 THEN ls[1]
         ELSE ls[1] \o <<NL>> \o JoinLines(Tail(ls))

\* A tag: "<span" or "</span" and everything up to the next ">".
IsTagStart(s, i) ==
    /\ s[i] = "<"
    /\ \/ i + 1 <= Len(s) /\ s[i + 1] = "span"
       \/ i + 2 <= Len(s) /\ s[i + 1] = "/" /\ s[i + 2] = "span"

\* The positions of s that tags cover, tags taken left to right without overlap.
RECURSIVE Covered(_, _)
Covered(s, i) ==
    IF i > Len(s) THEN {}
    ELSE LET name == IF i + 1 <= Len(s) /\ s[i + 1] = "/" THEN i + 2 ELSE i + 1
             gs == {g \in (name + 1)..Len(s) : s[g] = ">"}
         IN IF IsTagStart(s, i) /\ gs # {}
            THEN (i..Least(gs)) \cup Covered(s, Least(gs) + 1)
            ELSE Covered(s, i + 1)

WithoutTags(s) ==
    LET cov == Covered(s, 1)
        RECURSIVE pick(_)
        pick(i) == IF i > Len(s) THEN <<>>
                   ELSE (IF i \in cov THEN <<>> ELSE <<s[i]>>) \o pick(i + 1)
    IN pick(1)

\* The opening line's info string is exactly html / the line starts ```html.
InfoIsHtml(line) == Tail(line) = <<"html">>
LineStartsHtml(line) == Len(line) >= 2 /\ line[2] = "html"

RECURSIVE ExpectedLines(_, _, _)
ExpectedLines(ls, l, exact) ==
    IF l > Len(ls) THEN <<>>
    ELSE LET closers == {m \in (l + 1)..Len(ls) : ls[m] = <<FENCE>>}
             opens == Len(ls[l]) >= 1 /\ ls[l][1] = FENCE /\ closers # {}
         IN IF ~opens
            THEN <<ls[l]>> \o ExpectedLines(ls, l + 1, exact)
            ELSE LET m == Least(closers)
                     exempt == IF exact THEN InfoIsHtml(ls[l]) ELSE LineStartsHtml(ls[l])
                     body == <<NL>> \o JoinLines(SubSeq(ls, l + 1, m - 1))
                             \o (IF m > l + 1 THEN <<NL>> ELSE <<>>)
                     kept == IF exempt THEN body ELSE WithoutTags(body)
                 IN <<ls[l] \o kept \o <<FENCE>>>> \o ExpectedLines(ls, m + 1, exact)

Expected(s, exact) == JoinLines(ExpectedLines(SplitLines(s), 1, exact))

-----------------------------------------------------------------------------
(***************************************************************************)
(* The repair filter's claims, checked under SpanSpec.                     *)
(***************************************************************************)

\* C6: remove_span_tags_from_code is idempotent: for every markdown text,
\* applying the filter twice yields the same output as applying it once.
C6_Idempotent == phase = "twice" => out2 = out1

\* C7, as claimed: for every text that holds "</span>" the output is the input
\* with every span tag removed from the body of every fenced block whose info
\* string is not exactly html, and nothing else changed.
C7_ExactHtml ==
    (phase # "build" /\ Contains(markdown, CloseSpan)) => out1 = Expected(markdown, TRUE)

\* C7, amended: for every text that holds "</span>" the output is the input
\* with every tag (any text from "<span" or "</span" up to the next ">")
\* removed from the body of every fenced block whose opening line does not
\* start with ```html, and nothing else changed: fence lines, text outside
\* blocks and blocks whose opening line starts with ```html are the input's.
C7_PrefixHtml ==
    (phase # "build" /\ Contains(markdown, CloseSpan)) => out1 = Expected(markdown, FALSE)

\* C7's case: a text with "</span>" from which the filter took tags out of one
\* block while "</span>" survives elsewhere (an exempt block, or outside).
C7_Witness ==
    /\ phase = "once"
    /\ Contains(markdown, CloseSpan)
    /\ Len(out1) < Len(markdown)
    /\ Contains(out1, CloseSpan)
    /\ \E i \in 1..(Len(markdown) - 1) : markdown[i] = FENCE /\ markdown[i + 1] = "html"

-----------------------------------------------------------------------------
(***************************************************************************)
(* The image operations' claims, checked under Spec.  They are stated over *)
(* the url texts of the body, not with the operators of the model.         *)
(***************************************************************************)
\* A url text is remote-on-target: http or https, a host of the endpoint, a
\* path under /wp-content/uploads/.
RemoteOnTarget(url) ==
    /\ Lower(url.scheme) \in {"http", "https"}
    /\ url.netloc \in EndpointHosts
    /\ url.path.abs
    /\ Len(url.path.segs) > 2
    /\ SubSeq(url.path.segs, 1, 2) = <<"wp-content", "uploads">>

\* A url text is local: no scheme, or the file scheme.
IsLocal(url) == Lower(url.scheme) \in {"", "file"}

\* The url text as the store is asked for it.
Canonical(url) == [url EXCEPT !.scheme = Lower(@)]

\* The file <document-dir>/images/<basename of the url's path>.
ImagesFile(url) == <<"images", url.path.segs[Len(url.path.segs)]>>

\* The embed m with ./images/<basename> for its url.
Localised(m) ==
    [m EXCEPT !.url = Url("", "", FALSE,
                          <<".", "images", m.url.path.segs[Len(m.url.path.segs)]>>, "")]

IsRemoteEmbed(m) == m.kind = "image" /\ RemoteOnTarget(m.url)
IsLocalEmbed(m) == m.kind = "image" /\ IsLocal(m.url)

\* The local references of a body whose file exists, by path.
UploadablePaths(body, files) ==
    {body[i].url.path : i \in {j \in 1..Len(body) :
        IsLocalEmbed(body[j]) /\ Exists(files, JoinDir(body[j].url.path))}}

Done(name) == pc = "idle" /\ op = name /\ outcome = "ok"

\* C1: after download_remote_images completes, every embed whose url was
\* remote-on-target has its url replaced by ./images/<basename>, alt text and
\* caption kept, and every other embed and all other text is as it was.
C1_DownloadRewrites ==
    Done("download") =>
        /\ Len(content) = Len(pre.content)
        /\ \A i \in 1..Len(content) :
              content[i] = IF IsRemoteEmbed(pre.content[i])
                           THEN Localised(pre.content[i])
                           ELSE pre.content[i]

\* C1's case: a download rewrote an embed that has a caption and left another
\* embed, one that is not remote-on-target, alone.
C1_Witness ==
    /\ Done("download")
    /\ \E i, j \in 1..Len(content) :
          /\ IsRemoteEmbed(pre.content[i]) /\ pre.content[i].caption # ""
          /\ content[i] # pre.content[i]
          /\ pre.content[j].kind = "image" /\ ~IsRemoteEmbed(pre.content[j])

\* C2: to_wordpress populates the upload map before it renders, and the
\* rendered body has the uploaded object's url (alt text and caption kept) for
\* every local reference whose path is a key of the map, a reference with a
\* query string included; other references are rendered as they are.
C2_RenderSubstitutes ==
    Done("to_wordpress") =>
        /\ DOMAIN uploaded_images = {PathText(f) : f \in UploadablePaths(content, fs)}
        /\ Len(result.content) = Len(content)
        /\ \A i \in 1..Len(content) :
              result.content[i] =
                  IF IsLocalEmbed(content[i])
                     /\ PathText(content[i].url.path) \in DOMAIN uploaded_images
                  THEN [content[i] EXCEPT
                           !.url = uploaded_images[PathText(content[i].url.path)].url]
                  ELSE content[i]

\* C3: upload_local_images and to_wordpress never change the body: while and
\* after they run the body (and the files) are what they were at the call, and
\* as long as no download was called the body is the one the document was
\* loaded with.
C3_BodyUntouched ==
    /\ op \in {"upload", "to_wordpress"} => content = pre.content /\ fs = pre.fs
    /\ ~downloading => content = orig

\* C3's case: to_wordpress, after an upload pass, rendered an uploaded image's
\* url into its record, and the body still has the local path.
C3_Witness ==
    /\ Done("to_wordpress")
    /\ prev = [op |-> "upload", outcome |-> "ok"]
    /\ result.content # content
    /\ content = orig

\* C4: a local reference whose file does not exist is skipped without raising:
\* no upload_media call and no map entry for it, and every other local
\* reference whose file exists is uploaded and recorded, in whatever order the
\* references are visited.
C4_MissingSkipped ==
    (op \in {"upload", "to_wordpress"} /\ outcome # "lookup_failed") =>
        /\ put \subseteq UploadablePaths(content, fs)
        /\ DOMAIN uploaded_images \subseteq {PathText(f) : f \in put}
        /\ (pc = "idle" /\ outcome = "ok") =>
              /\ put = UploadablePaths(content, fs)
              /\ DOMAIN uploaded_images = {PathText(f) : f \in put}

\* C4's case: an upload pass ended having uploaded one reference and skipped
\* another, whose file does not exist.
C4_Witness ==
    /\ Done("upload")
    /\ put # {}
    /\ \E i \in 1..Len(content) :
          IsLocalEmbed(content[i]) /\ ~Exists(fs, JoinDir(content[i].url.path))

\* C5: when the lookup of the author fails, to_wordpress fails as a whole: no
\* upload_media call was made, the upload map is unchanged and no record is
\* returned.
C5_LookupFailureNoPublish ==
    (op = "to_wordpress" /\ outcome = "lookup_failed") =>
        /\ pc = "idle"
        /\ put = {}
        /\ uploaded_images = pre.uploaded_images
        /\ result = NoRecord

\* C5's case: the lookup failed on a document that has an uploadable image and
\* a map filled by an earlier upload pass.
C5_Witness ==
    /\ op = "to_wordpress"
    /\ outcome = "lookup_failed"
    /\ UploadablePaths(content, fs) # {}
    /\ DOMAIN uploaded_images # {}

\* C8, as claimed: a get_media failure does not abort the other images: the
\* failed reference is skipped and left as it is, every other remote-on-target
\* reference is fetched, written and rewritten.
C8_FailureSkipsOne ==
    (pc = "idle" /\ op = "download" /\ failed # {}) =>
        \A i \in 1..Len(pre.content) :
            IsRemoteEmbed(pre.content[i]) =>
                IF Canonical(pre.content[i].url) \in failed
                THEN content[i] = pre.content[i]
                ELSE /\ Canonical(pre.content[i].url) \in got
                     /\ fs[ImagesFile(pre.content[i].url)].exists
                     /\ content[i] = Localised(pre.content[i])

\* C8, amended: a get_media failure ends download_remote_images there and
\* then: the exception leaves the call, no reference is visited after the one
\* that failed, and the body is not rewritten at all, the references fetched
\* and written before the failure included.
C8_FailureAborts ==
    (pc = "idle" /\ op = "download" /\ failed # {}) =>
        /\ outcome = "raised"
        /\ Cardinality(failed) = 1
        /\ got = downloaded_images \cup failed
        /\ content = pre.content
        /\ \A i \in 1..Len(pre.content) :
              (IsRemoteEmbed(pre.content[i])
                  /\ Canonical(pre.content[i].url) \in downloaded_images)
              => fs[ImagesFile(pre.content[i].url)].exists

\* C8's case: get_media raised after another image of the same document had
\* been fetched and written.
C8_Witness ==
    /\ pc = "idle"
    /\ op = "download"
    /\ outcome = "raised"
    /\ failed # {}
    /\ downloaded_images # {}

\* C9: after a download that completes the body holds no remote-on-target
\* reference, and a second call makes no get_media call, writes no file and
\* leaves the body as it is.
C9_DownloadIdempotent ==
    /\ Done("download") =>
          \A i \in 1..Len(content) : ~IsRemoteEmbed(content[i])
    /\ (Done("download") /\ prev = [op |-> "download", outcome |-> "ok"]) =>
          /\ got = {}
          /\ fs = pre.fs
          /\ content = pre.content

\* C9's case: a second download completed right after a first one that had
\* rewritten the body.
C9_Witness ==
    /\ Done("download")
    /\ prev = [op |-> "download", outcome |-> "ok"]
    /\ content # orig
    /\ \E i \in 1..Len(orig) : IsRemoteEmbed(orig[i])

\* C10: after a download that completes, for every reference it rewrote to
\* ./images/<name> the file images/<name> holds the bytes fetched from that
\* reference's own remote url.
C10_FilesHoldTheirUrl ==
    Done("download") =>
        \A i \in 1..Len(pre.content) :
            IsRemoteEmbed(pre.content[i]) =>
                fs[ImagesFile(pre.content[i].url)] = Written(Canonical(pre.content[i].url))

=============================================================================
